---- MODULE Spec2Model ----
(***************************************************************************)
(* Model of the housing-cooperative payments application:                  *)
(*   payments_import.py  detect_apartment, parse_statement_to_payments,    *)
(*                       attach_apartment_ids, save_payments_to_db         *)
(*   charges.py          get_active_tariffs, calculate_charges_for_        *)
(*                       apartment, generate_charges                       *)
(*   app.py              the payments page (manual resolution and save)    *)
(*                                                                         *)
(* Conventions.                                                            *)
(*  - Optional[T] is a sequence of length 0 (None) or 1 (<<v>>).           *)
(*  - A text is a sequence of symbols.  A symbol is one character, or a   *)
(*    fixed substring that the regular expressions and the `in` tests of   *)
(*    the code only ever use as a unit: "kv" is the substring "кв", "KV"   *)
(*    its upper-case spelling, "artira" the rest of the word "квартира",   *)
(*    "street"/"house"/"korp" the three address constants of               *)
(*    detect_apartment, "x" any other letter.                              *)
(*  - Floats are exact fixed-point integers; every scale is named where    *)
(*    it is used.                                                          *)
(***************************************************************************)
EXTENDS Integers, Sequences, FiniteSets, TLC

VARIABLES
    pc,                 \* position of the running page / call
    description,        \* detect_apartment: argument description
    sender_info,        \* detect_apartment: argument sender_info (Optional text)
    detected,           \* detect_apartment: returned Optional[int]
    tariff_items,       \* table tariff_items, in query order
    period,             \* get_active_tariffs: argument period
    active,             \* get_active_tariffs: returned dict code -> row
    apartments,         \* table apartments, in table order
    charges,            \* table charges, in insertion order
    runs,               \* log of generate_charges calls and what each returned
    statement,          \* rows of the normalised statement (df_out)
    matched,            \* app.py local: matched
    unmatched,          \* app.py local: unmatched
    choices,            \* widget state of the selectboxes apt_choice_<idx>
    final_matched,      \* app.py local: final_matched
    final_unmatched,    \* app.py local: final_unmatched
    payments,           \* table payments, in insertion order
    unmatched_payments, \* table unmatched_payments, in insertion order
    saves               \* number of presses of the save button

detVars == <<description, sender_info, detected>>
tarVars == <<tariff_items, period, active>>
chgVars == <<apartments, charges, runs>>
impVars == <<statement, matched, unmatched, choices, final_matched,
             final_unmatched, payments, unmatched_payments, saves>>
vars == <<pc, detVars, tarVars, chgVars, impVars>>

None == <<>>
Some(v) == <<v>>
IsNone(o) == o = <<>>
Val(o) == o[1]

Min(S) == CHOOSE m \in S : \A n \in S : m <= n
Max(S) == CHOOSE m \in S : \A n \in S : m >= n

(***************************************************************************)
(* Texts                                                                   *)
(***************************************************************************)
Digits == {"d0", "d1", "d2"}
Whitespace == {"sp"}

DigitVal(c) == CASE c = "d0" -> 0 [] c = "d1" -> 1 [] c = "d2" -> 2

\* str.lower()
lower(s) == [i \in DOMAIN s |-> IF s[i] = "KV" THEN "kv" ELSE s[i]]

RECURSIVE SkipWhile(_, _, _)
\* index of the first position >= j of s that is not in cls (Len(s)+1 if none):
\* where a greedy cls* that started at j stops
SkipWhile(s, j, cls) ==
    IF j <= Len(s) /\ s[j] \in cls THEN SkipWhile(s, j + 1, cls) ELSE j

RECURSIVE SkipBack(_, _)
\* index of the last position <= j of s that is not whitespace (0 if none)
SkipBack(s, j) ==
    IF j >= 1 /\ s[j] \in Whitespace THEN SkipBack(s, j - 1) ELSE j

\* str.strip()
strip(s) == SubSeq(s, SkipWhile(s, 1, Whitespace), SkipBack(s, Len(s)))

RECURSIVE int(_)
\* int() of a string of decimal digits
int(ds) ==
    IF ds = <<>> THEN 0
    ELSE int(SubSeq(ds, 1, Len(ds) - 1)) * 10 + DigitVal(ds[Len(ds)])

Contains(s, c) == \E i \in DOMAIN s : s[i] = c

\* a group of a single digit, ([0-9])
GroupLen_one(s, j) == IF SkipWhile(s, j, Digits) > j THEN 1 ELSE 0

\* the group ([0-9]{1,3}) matched greedily at position j: its length, 0 if
\* no digit stands at j
GroupLen(s, j) ==
    LET run == SkipWhile(s, j, Digits) - j
    IN  IF run > 3 THEN 3 ELSE run

\* re.search: the leftmost of the positions at which the pattern matches
Search(hits) == IF hits = {} THEN None ELSE Some(Min(hits))

\* r"кв<cls>*([0-9]{1,3})": position of the group when the pattern matches
\* at i, else 0
KvGroupAt(s, i, cls) ==
    IF s[i] # "kv" THEN 0
    ELSE LET j == SkipWhile(s, i + 1, cls)
         IN  IF GroupLen(s, j) > 0 THEN j ELSE 0

\* m.group(1) of re.search(r"кв<cls>*([0-9]{1,3})", s), as Optional[int]
SearchKv(s, cls) ==
    LET m == Search({i \in DOMAIN s : KvGroupAt(s, i, cls) > 0})
    IN  IF IsNone(m) THEN None
        ELSE LET j == KvGroupAt(s, Val(m), cls)
             IN  Some(int(SubSeq(s, j, j + GroupLen(s, j) - 1)))

\* r";\s*0*([0-9]{1,3})\s*$" at position i: the set of lengths a of the 0*
\* part for which the whole pattern matches from i
TrailZeros(s, i) ==
    IF s[i] # "semi" THEN {}
    ELSE LET j == SkipWhile(s, i + 1, Whitespace)
             z == SkipWhile(s, j, {"d0"}) - j
         IN  {a \in 0..z : \E k \in 1..3 :
                 /\ j + a + k - 1 <= Len(s)
                 /\ \A q \in (j + a)..(j + a + k - 1) : s[q] \in Digits
                 /\ SkipWhile(s, j + a + k, Whitespace) = Len(s) + 1}

\* m.group(1) of re.search(r";\s*0*([0-9]{1,3})\s*$", s): 0* is greedy, so
\* the longest admissible run of zeros is taken and the group is the rest
SearchTrailingCode(s) ==
    LET m == Search({i \in DOMAIN s : TrailZeros(s, i) # {}})
    IN  IF IsNone(m) THEN None
        ELSE LET i == Val(m)
                 j == SkipWhile(s, i + 1, Whitespace)
                 a == Max(TrailZeros(s, i))
                 e == SkipWhile(s, j + a, Digits)
             IN  Some(int(SubSeq(s, j + a, e - 1)))

\* r"квартира\s*([0-9]{1,3})": position of the group when the pattern
\* matches at i, else 0
KvartiraGroupAt(s, i) ==
    IF ~(s[i] = "kv" /\ i + 1 <= Len(s) /\ s[i + 1] = "artira") THEN 0
    ELSE LET j == SkipWhile(s, i + 2, Whitespace)
         IN  IF GroupLen(s, j) > 0 THEN j ELSE 0

SearchKvartira(s) ==
    LET m == Search({i \in DOMAIN s : KvartiraGroupAt(s, i) > 0})
    IN  IF IsNone(m) THEN None
        ELSE LET j == KvartiraGroupAt(s, Val(m))
             IN  Some(int(SubSeq(s, j, j + GroupLen(s, j) - 1)))

(***************************************************************************)
(* detect_apartment                                                        *)
(***************************************************************************)
HOME_STREET == "street"
HOME_HOUSE == "house"
HOME_KORP == "korp"

\* tier 1: the sender block, when it names the cooperative's address
DetectBySender(sender) ==
    IF IsNone(sender) \/ Val(sender) = <<>> THEN None
    ELSE LET text == lower(Val(sender))
         IN  IF /\ Contains(text, HOME_STREET)
                /\ Contains(text, HOME_HOUSE)
                /\ Contains(text, HOME_KORP)
             THEN SearchKv(text, {"dot", "sp"})
             ELSE None

\* tier 2: the payment purpose, three rules in order
DetectByDescription(descr) ==
    IF descr = <<>> THEN None
    ELSE LET desc == strip(lower(descr))
             a == SearchTrailingCode(desc)
             b == SearchKv(desc, {"dot", "sp", "hy"})
             c == SearchKvartira(desc)
         IN  IF ~IsNone(a) THEN a
             ELSE IF ~IsNone(b) THEN b
             ELSE IF ~IsNone(c) THEN c
             ELSE None

\* the payment purpose asked before the sender block
detect_apartment_purpose_first(descr, sender) ==
    LET byDescription == DetectByDescription(descr)
    IN  IF ~IsNone(byDescription) THEN byDescription ELSE DetectBySender(sender)

detect_apartment(descr, sender) ==
    LET bySender == DetectBySender(sender)
    IN  IF ~IsNone(bySender) THEN bySender ELSE DetectByDescription(descr)

(***************************************************************************)
(* Dates, tariffs                                                          *)
(***************************************************************************)
\* datetime.date, encoded so that the order of dates is the order of numbers
date(y, m, d) == (y * 12 + (m - 1)) * 31 + (d - 1)

month_start(year, month) == date(year, month, 1)

\* a version dated on the period itself left out
InForce_before(t, p) == t.valid_from < p

\* charges.py line 83: the version is in force at the period
InForce(t, p) == t.valid_from <= p

\* an equally dated version replacing the one already chosen
Newer_or_equal(prev, t) == prev.valid_from <= t.valid_from

\* charges.py line 85: the version replaces the one already chosen
Newer(prev, t) == prev.valid_from < t.valid_from

\* result[t.code] = t
DictSet(result, k, v) ==
    [c \in DOMAIN result \union {k} |-> IF c = k THEN v ELSE result[c]]

RECURSIVE ActiveFrom(_, _, _, _)
\* the loop of get_active_tariffs from row i on
ActiveFrom(items, i, p, result) ==
    IF i > Len(items) THEN result
    ELSE LET t == items[i]
         IN  IF /\ InForce(t, p)
                /\ \/ t.code \notin DOMAIN result
                   \/ Newer(result[t.code], t)
             THEN ActiveFrom(items, i + 1, p, DictSet(result, t.code, t))
             ELSE ActiveFrom(items, i + 1, p, result)

get_active_tariffs(items, p) == ActiveFrom(items, 1, p, <<>>)

(***************************************************************************)
(* Charges.  Scales: area and the radio/antenna coefficients are in        *)
(* tenths, tariff values in hundredths, intercom and every unrounded       *)
(* amount in thousandths of a rouble, rounded amounts in kopecks.          *)
(***************************************************************************)
\* truth value of an Optional number: None and 0 are false
Truthy(o) == ~IsNone(o) /\ Val(o) # 0

\* n / d rounded to an integer, ties to even
RoundDiv(n, d) ==
    LET q == n \div d
        r == n % d
    IN  IF 2 * r < d THEN q
        ELSE IF 2 * r > d THEN q + 1
        ELSE IF q % 2 = 0 THEN q ELSE q + 1

\* round(amount, 2) of an amount in thousandths, in kopecks
round2(amount) == RoundDiv(amount, 10)

ChargeRow(apt, p, code, name, amount) ==
    [apartment_id |-> apt.id, apartment_number |-> apt.number, period |-> p,
     item_code |-> code, item_name |-> name, amount |-> amount]

\* 1. target fee: area * value
TargetAmount(apt, tariffs) ==
    IF "target_fee" \in DOMAIN tariffs /\ Truthy(apt.area)
    THEN Some(Val(apt.area) * tariffs["target_fee"].value)
    ELSE None

\* the radio line tied to the target fee tariff: a gap in target_fee takes
\* the radio line away as well
RadioAmount_after_target(apt, tariffs) ==
    IF {"target_fee", "radio"} \subseteq DOMAIN tariffs /\ Truthy(apt.radio)
    THEN Some(tariffs["radio"].value * Val(apt.radio))
    ELSE None

\* 2. radio: value * coefficient
RadioAmount(apt, tariffs) ==
    IF "radio" \in DOMAIN tariffs /\ Truthy(apt.radio)
    THEN Some(tariffs["radio"].value * Val(apt.radio))
    ELSE None

\* 3. antenna: value * coefficient
AntennaAmount(apt, tariffs) ==
    IF "antenna" \in DOMAIN tariffs /\ Truthy(apt.antenna)
    THEN Some(tariffs["antenna"].value * Val(apt.antenna))
    ELSE None

\* 4. intercom: the apartment's own amount
IntercomAmount(apt) ==
    IF Truthy(apt.intercom) /\ Val(apt.intercom) > 0
    THEN Some(Val(apt.intercom))
    ELSE None

AmountOrZero(o) == IF IsNone(o) THEN 0 ELSE Val(o)

\* total_before_percent when the bank percent is reached
TotalBeforePercent(apt, tariffs) ==
    AmountOrZero(TargetAmount(apt, tariffs))
    + AmountOrZero(RadioAmount(apt, tariffs))
    + AmountOrZero(AntennaAmount(apt, tariffs))
    + AmountOrZero(IntercomAmount(apt))

\* the bank percent charged on an empty subtotal as well
BankApplies_nonneg(tariffs, total) ==
    "bank_percent" \in DOMAIN tariffs /\ total >= 0

\* the guard of the bank percent line
BankApplies(tariffs, total) == "bank_percent" \in DOMAIN tariffs /\ total > 0

\* round(total * (value / 100.0), 2) in kopecks: total is in thousandths and
\* value in hundredths of a percent
BankAmount(tariffs, total) ==
    RoundDiv(total * tariffs["bank_percent"].value, 100000)

OneRow(amount, apt, p, code, name) ==
    IF IsNone(amount) THEN <<>>
    ELSE <<ChargeRow(apt, p, code, name, round2(Val(amount)))>>

calculate_charges_for_apartment(apt, p, tariffs) ==
    LET total == TotalBeforePercent(apt, tariffs)
    IN  OneRow(TargetAmount(apt, tariffs), apt, p, "target_fee",
               IF "target_fee" \in DOMAIN tariffs
               THEN tariffs["target_fee"].name ELSE "")
        \o OneRow(RadioAmount(apt, tariffs), apt, p, "radio",
               IF "radio" \in DOMAIN tariffs
               THEN tariffs["radio"].name ELSE "")
        \o OneRow(AntennaAmount(apt, tariffs), apt, p, "antenna",
               IF "antenna" \in DOMAIN tariffs
               THEN tariffs["antenna"].name ELSE "")
        \o OneRow(IntercomAmount(apt), apt, p, "intercom", "Domofon")
        \o (IF BankApplies(tariffs, total)
            THEN <<ChargeRow(apt, p, "bank_percent",
                             tariffs["bank_percent"].name,
                             BankAmount(tariffs, total))>>
            ELSE <<>>)

RECURSIVE OrderByNumber(_)
\* session.query(Apartment).order_by(Apartment.number).all(); rows of equal
\* number stay in table order
OrderByNumber(apts) ==
    IF apts = <<>> THEN <<>>
    ELSE LET least == Min({apts[i].number : i \in DOMAIN apts})
             k == Min({i \in DOMAIN apts : apts[i].number = least})
         IN  <<apts[k]>> \o
             OrderByNumber(SubSeq(apts, 1, k - 1) \o SubSeq(apts, k + 1, Len(apts)))

RECURSIVE AllRows(_, _, _)
\* the loop of generate_charges over the apartments
AllRows(apts, p, tariffs) ==
    IF apts = <<>> THEN <<>>
    ELSE calculate_charges_for_apartment(Head(apts), p, tariffs)
         \o AllRows(Tail(apts), p, tariffs)

\* the old rows of the period kept
DeletePeriod_kept(rows, p) == rows

\* the delete without its period filter
DeletePeriod_all(rows, p) == <<>>

\* session.query(Charge).filter(Charge.period == period).delete()
DeletePeriod(rows, p) == SelectSeq(rows, LAMBDA c : c.period # p)

\* Charge(...) of a ChargeRow; the columns id and created_at, which no
\* operation reads, are left out
ChargeOf(r) ==
    [apartment_id |-> r.apartment_id, period |-> r.period,
     item_code |-> r.item_code, item_name |-> r.item_name, amount |-> r.amount]

ChargesOf(rows) == [i \in DOMAIN rows |-> ChargeOf(rows[i])]

\* the store after the save_to_db branch
SaveCharges(store, p, rows) == DeletePeriod(store, p) \o ChargesOf(rows)

(***************************************************************************)
(* Statement import and the payments page                                  *)
(***************************************************************************)
\* ParsedPayment; row stands for the identity of the object (its row of the
\* statement)
ParsedPayment(i, r) ==
    [row |-> i, date |-> r.date, amount |-> r.amount,
     description |-> r.description, sender_info |-> r.sender_info,
     guessed_apartment_number |-> detect_apartment(r.description, r.sender_info),
     apartment_id |-> None]

parse_statement_to_payments(df) == [i \in DOMAIN df |-> ParsedPayment(i, df[i])]

\* mapping = {a.number: a.id for a in apartments}: a later row overwrites
Mapping(apts) ==
    [n \in {apts[i].number : i \in DOMAIN apts} |->
        apts[Max({i \in DOMAIN apts : apts[i].number = n})].id]

\* p.guessed_apartment_number in mapping
InMapping(p, mapping) ==
    /\ ~IsNone(p.guessed_apartment_number)
    /\ Val(p.guessed_apartment_number) \in DOMAIN mapping

WithId(p, id) == [p EXCEPT !.apartment_id = id]

\* attach_apartment_ids: the two returned lists
AttachMatched(ps, apts) ==
    LET mapping == Mapping(apts)
        hit == SelectSeq(ps, LAMBDA p : InMapping(p, mapping))
    IN  [i \in DOMAIN hit |->
            WithId(hit[i], Some(mapping[Val(hit[i].guessed_apartment_number)]))]

\* only payments that carry a guess kept as unmatched
AttachUnmatched_guessed(ps, apts) ==
    LET mapping == Mapping(apts)
    IN  SelectSeq(ps, LAMBDA p : /\ ~IsNone(p.guessed_apartment_number)
                                 /\ ~InMapping(p, mapping))

AttachUnmatched(ps, apts) ==
    LET mapping == Mapping(apts)
    IN  SelectSeq(ps, LAMBDA p : ~InMapping(p, mapping))

\* app.py lines 148-162: the selectbox values written into the unmatched
\* records; a choice is None ("Не выбрано") or the number on a label of apt_map
ApplyChoices(un, ch, apts) ==
    LET apt_map == Mapping(apts)
    IN  [i \in DOMAIN un |->
            IF IsNone(ch[i]) THEN un[i]
            ELSE WithId(un[i], Some(apt_map[Val(ch[i])]))]

\* every unmatched record taken as resolved
FinalMatched_all(m, un) == m \o un

\* every unmatched record kept as unresolved
FinalUnmatched_all(un) == un

\* app.py lines 166-167
FinalMatched(m, un) == m \o SelectSeq(un, LAMBDA p : Truthy(p.apartment_id))

FinalUnmatched(un) == SelectSeq(un, LAMBDA p : ~Truthy(p.apartment_id))

\* str(p.sender_info)
str(o) == IF IsNone(o) THEN <<"N", "o", "n", "e">> ELSE Val(o)

\* Payment(...) and UnmatchedPayment(...); the columns id and created_at are
\* left out
PaymentOf(p) ==
    [apartment_id |-> p.apartment_id, date |-> p.date, amount |-> p.amount,
     description |-> p.description]

UnmatchedPaymentOf(p) ==
    [date |-> p.date, amount |-> p.amount, description |-> p.description,
     raw_info |-> str(p.sender_info)]

(***************************************************************************)
(* Bounds and the inputs drawn from them                                   *)
(***************************************************************************)
MaxDescLen == 4       \* symbols of a description
MaxSenderTail == 4    \* symbols of a sender block after its address part
MaxTariffs == 3       \* rows of the tariff table when only resolving
MaxMonth == 3         \* months of the year that are billed
MaxRuns == 2          \* calls of generate_charges
MaxRows == 3          \* rows of a statement
MaxSaves == 1         \* presses of the save button

SeqsUpTo(S, n) == UNION {[1..k -> S] : k \in 0..n}

DescAlphabet ==
    {"kv", "KV", "artira", "sp", "dot", "hy", "semi", "d0", "d1", "d2", "x"}

SenderAlphabet == {"kv", "sp", "hy", "d1", "d2", "x"}

HomePart(tokens) ==
    (IF HOME_STREET \in tokens THEN <<HOME_STREET, "sp">> ELSE <<>>)
    \o (IF HOME_HOUSE \in tokens THEN <<HOME_HOUSE, "sp">> ELSE <<>>)
    \o (IF HOME_KORP \in tokens THEN <<HOME_KORP, "sp">> ELSE <<>>)

HomeTokens == {HOME_STREET, HOME_HOUSE, HOME_KORP}

HomeSender(tail) == Some(HomePart(HomeTokens) \o tail)

FewSenders ==
    {None, Some(<<>>), HomeSender(<<"kv", "sp", "d2">>),
     HomeSender(<<"KV", "dot", "d2", "d1">>),
     Some(<<HOME_STREET, "sp", "kv", "sp", "d2">>)}

FewDescriptions ==
    {<<>>, <<"x">>, <<"kv", "sp", "d1">>, <<"x", "semi", "d1">>,
     <<"kv", "artira", "d1">>}

ManySenders ==
    {Some(HomePart(ts) \o tail) :
        ts \in SUBSET HomeTokens, tail \in SeqsUpTo(SenderAlphabet, MaxSenderTail)}

Years == {2025}
Periods == {month_start(y, m) : y \in Years, m \in 1..MaxMonth}

NameOf(code) ==
    CASE code = "target_fee" -> "Celevoy vznos"
      [] code = "radio" -> "Radio"
      [] code = "antenna" -> "Antenna"
      [] code = "bank_percent" -> "Bankovskiy procent"

TypeOf(code) ==
    CASE code = "target_fee" -> "per_m2"
      [] code = "bank_percent" -> "percent"
      [] OTHER -> "fixed"

TariffItem(id, code, value, valid_from) ==
    [id |-> id, code |-> code, name |-> NameOf(code), type |-> TypeOf(code),
     value |-> value, valid_from |-> valid_from]

TariffDates == {date(2025, 1, 1), date(2025, 2, 1), date(2025, 2, 15)}

\* tables of up to MaxTariffs versions of two codes; the value tells the
\* rows apart
TariffTables ==
    {[i \in DOMAIN q |-> TariffItem(i, q[i][1], 1000 * i, q[i][2])] :
        q \in SeqsUpTo({"target_fee", "bank_percent"} \X TariffDates, MaxTariffs)}

\* the versions a tariff table of the billing runs is drawn from, in table
\* order (values in hundredths)
TariffCatalogue ==
    << <<"target_fee", 3000, date(2025, 1, 1)>>,
       <<"target_fee", 3124, date(2025, 2, 1)>>,
       <<"radio", 6000, date(2025, 1, 1)>>,
       <<"antenna", 4551, date(2025, 1, 15)>>,
       <<"bank_percent", 150, date(2025, 1, 1)>>,
       <<"bank_percent", 160, date(2025, 2, 1)>> >>

RECURSIVE Pick(_, _, _)
\* the rows of seq whose index is in keep, in order, from index i on
Pick(seq, keep, i) ==
    IF i > Len(seq) THEN <<>>
    ELSE (IF i \in keep THEN <<seq[i]>> ELSE <<>>) \o Pick(seq, keep, i + 1)

CatalogueTables ==
    {LET q == Pick(TariffCatalogue, keep, 1)
     IN  [i \in DOMAIN q |-> TariffItem(i, q[i][1], q[i][2], q[i][3])] :
        keep \in SUBSET DOMAIN TariffCatalogue}

\* Apartment rows as generate_charges and attach_apartment_ids read them: id
\* and number, and the billing attributes calculate_charges_for_apartment
\* takes from apt (the class Apartment of payments_import.py declares id,
\* number and owner_name only)
Apartment(id, number, area, radio, antenna, intercom) ==
    [id |-> id, number |-> number, area |-> area, radio |-> radio,
     antenna |-> antenna, intercom |-> intercom]

ApartmentCatalogue ==
    << Apartment(1, 12, Some(540), Some(10), Some(0), Some(150000)),
       Apartment(2, 2, Some(314), Some(5), Some(10), None),
       Apartment(3, 21, None, Some(0), None, Some(0)) >>

Registries ==
    {Pick(ApartmentCatalogue, keep, 1) : keep \in SUBSET DOMAIN ApartmentCatalogue}

\* charge rows left in the store by earlier runs under other tariffs
StaleCharges ==
    << [apartment_id |-> 1, period |-> month_start(2025, 1),
        item_code |-> "target_fee", item_name |-> NameOf("target_fee"),
        amount |-> 150000],
       [apartment_id |-> 4, period |-> month_start(2025, 2),
        item_code |-> "radio", item_name |-> NameOf("radio"),
        amount |-> 5000],
       [apartment_id |-> 1, period |-> month_start(2025, 2),
        item_code |-> "target_fee", item_name |-> NameOf("target_fee"),
        amount |-> 150000] >>

StartingStores == {<<>>, StaleCharges}

StatementRow(d, amount, descr, sender) ==
    [date |-> d, amount |-> amount, description |-> descr, sender_info |-> sender]

\* rows a statement is drawn from: "oplata KV. 12", "vznos ;002", a purpose
\* without a number, a sender block at the home address with "kv 21"
SampleRows ==
    {StatementRow(date(2025, 1, 10), 183000,
                  <<"x", "sp", "KV", "dot", "sp", "d1", "d2">>, None),
     StatementRow(date(2025, 1, 11), 50000, <<"x", "sp", "semi", "d0", "d0", "d2">>,
                  Some(<<"x">>)),
     StatementRow(date(2025, 1, 12), 70000, <<"x">>, None),
     StatementRow(date(2025, 1, 14), 2500, <<"x", "sp", "d1">>,
                  HomeSender(<<"kv", "sp", "d2", "d1">>))}

Statements == SeqsUpTo(SampleRows, MaxRows)

\* the registries the payments page runs over
ImportRegistries ==
    {Pick(ApartmentCatalogue, keep, 1) : keep \in {{}, {1}, {1, 2}, {2, 3}}}

\* the entries a selectbox can ever offer
ChoiceLabels ==
    {None} \union {Some(ApartmentCatalogue[i].number) : i \in DOMAIN ApartmentCatalogue}

(***************************************************************************)
(* States and steps                                                        *)
(***************************************************************************)
DetectIdle == description = <<>> /\ sender_info = None /\ detected = None
TariffIdle == tariff_items = <<>> /\ period = 0 /\ active = <<>>
ChargesIdle == apartments = <<>> /\ charges = <<>> /\ runs = <<>>
ImportIdle ==
    /\ statement = <<>> /\ matched = <<>> /\ unmatched = <<>>
    /\ choices = <<>> /\ final_matched = <<>> /\ final_unmatched = <<>>
    /\ payments = <<>> /\ unmatched_payments = <<>> /\ saves = 0

\* a call detect_apartment(description, sender_info) about to be made
InitDetect ==
    /\ pc = "detect_call"
    /\ \/ description \in SeqsUpTo(DescAlphabet, MaxDescLen)
          /\ sender_info \in FewSenders
       \/ description \in FewDescriptions /\ sender_info \in ManySenders
    /\ detected = None
    /\ TariffIdle /\ ChargesIdle /\ ImportIdle

DetectApartment ==
    /\ pc = "detect_call"
    /\ detected' = detect_apartment(description, sender_info)
    /\ pc' = "detect_done"
    /\ UNCHANGED <<description, sender_info, tarVars, chgVars, impVars>>

\* a call get_active_tariffs(session, period) about to be made
InitTariff ==
    /\ pc = "tariff_call"
    /\ tariff_items \in TariffTables
    /\ period \in Periods
    /\ active = <<>>
    /\ DetectIdle /\ ChargesIdle /\ ImportIdle

GetActiveTariffs ==
    /\ pc = "tariff_call"
    /\ active' = get_active_tariffs(tariff_items, period)
    /\ pc' = "tariff_done"
    /\ UNCHANGED <<tariff_items, period, detVars, chgVars, impVars>>

\* the charges page over a store that earlier runs may have filled
InitCharges ==
    /\ pc = "charges_page"
    /\ tariff_items \in CatalogueTables
    /\ apartments \in Registries
    /\ charges \in StartingStores
    /\ runs = <<>>
    /\ period = 0 /\ active = <<>>
    /\ DetectIdle /\ ImportIdle

\* generate_charges(session, year, month, save_to_db)
GenerateCharges(year, month, save_to_db) ==
    /\ pc = "charges_page"
    /\ Len(runs) < MaxRuns
    /\ LET p == month_start(year, month)
           tariffs == get_active_tariffs(tariff_items, p)
           all_rows == AllRows(OrderByNumber(apartments), p, tariffs)
           store == IF save_to_db THEN SaveCharges(charges, p, all_rows)
                    ELSE charges
       IN  /\ charges' = store
           /\ runs' = Append(runs, [period |-> p, save_to_db |-> save_to_db,
                                     tariffs |-> tariffs, returned |-> all_rows,
                                     before |-> charges, after |-> store])
    /\ UNCHANGED <<pc, apartments, tarVars, detVars, impVars>>

\* the payments page before a file is uploaded
InitImport ==
    /\ pc = "payments_page"
    /\ statement \in Statements
    /\ apartments \in ImportRegistries
    /\ matched = <<>> /\ unmatched = <<>> /\ choices = <<>>
    /\ final_matched = <<>> /\ final_unmatched = <<>>
    /\ payments = <<>> /\ unmatched_payments = <<>> /\ saves = 0
    /\ charges = <<>> /\ runs = <<>>
    /\ DetectIdle /\ TariffIdle

\* one run of the page script up to the save button: import_statement, then
\* the selectbox values written into the unmatched records
Rerun(ch) ==
    LET parsed == parse_statement_to_payments(statement)
    IN  /\ matched' = AttachMatched(parsed, apartments)
        /\ unmatched' = ApplyChoices(AttachUnmatched(parsed, apartments), ch,
                                     apartments)
        /\ choices' = ch

\* a file is uploaded: every selectbox starts at "Не выбрано"
Upload ==
    /\ pc = "payments_page"
    /\ Rerun([i \in 1..Len(AttachUnmatched(parse_statement_to_payments(statement),
                                           apartments)) |-> None])
    /\ pc' = "review"
    /\ UNCHANGED <<statement, apartments, final_matched, final_unmatched,
                   payments, unmatched_payments, saves, charges, runs,
                   detVars, tarVars>>

\* the operator sets selectbox idx; the page script runs again (followed up
\* to the last save the model allows)
SelectApartment(idx, choice) ==
    /\ pc \in {"review", "saved"}
    /\ saves < MaxSaves
    /\ idx \in DOMAIN choices
    /\ choice \in {None} \union {Some(n) : n \in DOMAIN Mapping(apartments)}
    /\ choice # choices[idx]
    /\ Rerun([choices EXCEPT ![idx] = choice])
    /\ pc' = "review"
    /\ UNCHANGED <<statement, apartments, final_matched, final_unmatched,
                   payments, unmatched_payments, saves, charges, runs,
                   detVars, tarVars>>

\* save_payments_to_db
SavePayments(table, fm) == table \o [i \in DOMAIN fm |-> PaymentOf(fm[i])]

SaveUnmatched(table, fu) == table \o [i \in DOMAIN fu |-> UnmatchedPaymentOf(fu[i])]

\* the save button is pressed: the page script runs again and reaches
\* app.py lines 164-170, where it reports the save
PressSave ==
    /\ pc \in {"review", "saved"}
    /\ saves < MaxSaves
    /\ Rerun(choices)
    /\ final_matched' = FinalMatched(matched', unmatched')
    /\ final_unmatched' = FinalUnmatched(unmatched')
    /\ payments' = SavePayments(payments, final_matched')
    /\ unmatched_payments' = SaveUnmatched(unmatched_payments, final_unmatched')
    /\ saves' = saves + 1
    /\ pc' = "saved"
    /\ UNCHANGED <<statement, apartments, charges, runs, detVars, tarVars>>

NextDetect == DetectApartment
NextTariff == GetActiveTariffs
NextCharges ==
    \E year \in Years, month \in 1..MaxMonth, save_to_db \in BOOLEAN :
        GenerateCharges(year, month, save_to_db)
NextImport ==
    \/ Upload
    \/ \E idx \in 1..MaxRows, choice \in ChoiceLabels :
          SelectApartment(idx, choice)
    \/ PressSave

SpecDetect == InitDetect /\ [][NextDetect]_vars
SpecTariff == InitTariff /\ [][NextTariff]_vars
SpecCharges == InitCharges /\ [][NextCharges]_vars
SpecImport == InitImport /\ [][NextImport]_vars

Init == InitDetect \/ InitTariff \/ InitCharges \/ InitImport
Next == NextDetect \/ NextTariff \/ NextCharges \/ NextImport
Spec == Init /\ [][Next]_vars

(***************************************************************************)
(* Tariff resolution                                                       *)
(***************************************************************************)
TariffCodes == {tariff_items[i].code : i \in DOMAIN tariff_items}

\* the rows of a code that are dated on or before the period
Qualifying(code) ==
    {i \in DOMAIN tariff_items :
        tariff_items[i].code = code /\ tariff_items[i].valid_from <= period}

LatestDate(code) == Max({tariff_items[i].valid_from : i \in Qualifying(code)})

\* the rows of a code that share its latest qualifying date
Tied(code) ==
    {i \in Qualifying(code) : tariff_items[i].valid_from = LatestDate(code)}

\* C1: get_active_tariffs maps each code to one of its versions dated on or
\* before the period, namely one with the greatest such date; it returns no
\* version dated after the period, and a code without a version dated on or
\* before the period is absent from the result.
C1_LatestInForce ==
    pc = "tariff_done" =>
        /\ DOMAIN active \subseteq TariffCodes
        /\ \A code \in TariffCodes :
              IF Qualifying(code) = {} THEN code \notin DOMAIN active
              ELSE /\ code \in DOMAIN active
                   /\ \E i \in Qualifying(code) : active[code] = tariff_items[i]
                   /\ active[code].valid_from <= period
                   /\ active[code].valid_from = LatestDate(code)

\* a code with an older and a newer version in force and one not yet in
\* force, iterated newest first, and a second code with nothing in force
C1_Witness ==
    /\ pc = "tariff_done"
    /\ Len(tariff_items) = 3
    /\ tariff_items[1].code = tariff_items[2].code
    /\ tariff_items[3].code # tariff_items[1].code
    /\ tariff_items[2].valid_from < tariff_items[1].valid_from
    /\ tariff_items[1].valid_from = period
    /\ tariff_items[3].valid_from > period
    /\ active[tariff_items[1].code] = tariff_items[1]
    /\ DOMAIN active = {tariff_items[1].code}

\* C9 as stated: of the versions of a code that share its latest qualifying
\* date, the resolver picks the one iterated last.
C9_LaterIteratedWins ==
    pc = "tariff_done" =>
        \A code \in DOMAIN active :
            Cardinality(Tied(code)) >= 2 =>
                active[code] = tariff_items[Max(Tied(code))]

\* C9 amended: of the versions of a code that share its latest qualifying
\* date, the resolver picks the one iterated first; the choice is a function
\* of the table in iteration order and the period.
C9_EarlierIteratedWins ==
    pc = "tariff_done" =>
        \A code \in DOMAIN active :
            Cardinality(Tied(code)) >= 2 =>
                active[code] = tariff_items[Min(Tied(code))]

\* two versions of one code tied on the latest qualifying date
C9_Witness ==
    /\ pc = "tariff_done"
    /\ \E code \in DOMAIN active :
          /\ Cardinality(Tied(code)) >= 2
          /\ active[code] = tariff_items[Min(Tied(code))]
          /\ active[code] # tariff_items[Max(Tied(code))]

(***************************************************************************)
(* Charge calculation and generation                                       *)
(***************************************************************************)
\* the lines of one apartment among the rows a run returned, as
\* <<item code, amount in kopecks>>
LinesOf(run, id) ==
    LET mine == SelectSeq(run.returned, LAMBDA r : r.apartment_id = id)
    IN  [i \in DOMAIN mine |-> <<mine[i].item_code, mine[i].amount>>]

Rate(tariffs, code) == IF code \in DOMAIN tariffs THEN tariffs[code].value ELSE 0

Attr(o) == IF o = <<>> THEN 0 ELSE o[1]

\* the subtotal of the four items in thousandths: area * rate, coefficient *
\* rate twice, and the intercom amount when positive
C5_Subtotal(apt, tariffs) ==
    Attr(apt.area) * Rate(tariffs, "target_fee")
    + Attr(apt.radio) * Rate(tariffs, "radio")
    + Attr(apt.antenna) * Rate(tariffs, "antenna")
    + (IF Attr(apt.intercom) > 0 THEN Attr(apt.intercom) ELSE 0)

C5_BankLines(run, id) ==
    {i \in DOMAIN LinesOf(run, id) : LinesOf(run, id)[i][1] = "bank_percent"}

\* C5: a bank_percent line is emitted for an apartment exactly when a
\* bank_percent tariff is resolved and the subtotal of the four other items
\* is strictly positive; it is the last line and its amount is subtotal *
\* rate / 100 rounded to the nearest kopeck; apartment 12 (area 54, radio 1,
\* antenna 0, intercom 150) under target_fee 30, radio 60, bank_percent 1.5
\* gets exactly target_fee 1620.00, radio 60.00, intercom 150.00,
\* bank_percent 27.45.
C5_BankPercent ==
    \A k \in DOMAIN runs : \A a \in DOMAIN apartments :
        LET run == runs[k]
            apt == apartments[a]
            lines == LinesOf(run, apt.id)
            bank == C5_BankLines(run, apt.id)
            sub == C5_Subtotal(apt, run.tariffs)
        IN  /\ bank # {} <=> ("bank_percent" \in DOMAIN run.tariffs /\ sub > 0)
            /\ bank \subseteq {Len(lines)}
            /\ \A i \in bank :
                  LET exact == sub * run.tariffs["bank_percent"].value
                      diff == lines[i][2] * 100000 - exact
                  IN  diff <= 50000 /\ -diff <= 50000
            /\ ( /\ apt.number = 12 /\ apt.area = <<540>> /\ apt.radio = <<10>>
                 /\ apt.antenna = <<0>> /\ apt.intercom = <<150000>>
                 /\ {"target_fee", "radio", "bank_percent"} \subseteq DOMAIN run.tariffs
                 /\ run.tariffs["target_fee"].value = 3000
                 /\ run.tariffs["radio"].value = 6000
                 /\ run.tariffs["bank_percent"].value = 150 )
               => lines = << <<"target_fee", 162000>>, <<"radio", 6000>>,
                             <<"intercom", 15000>>, <<"bank_percent", 2745>> >>

\* one run bills apartment 12 as in the scenario, an apartment whose bank
\* percent rests on sub-kopeck amounts, and an apartment with an empty
\* subtotal that gets no bank line although the tariff is resolved
C5_Witness ==
    /\ Len(runs) >= 1
    /\ Len(apartments) = 3
    /\ "bank_percent" \in DOMAIN runs[1].tariffs
    /\ LinesOf(runs[1], 1) = << <<"target_fee", 162000>>, <<"radio", 6000>>,
                                <<"intercom", 15000>>, <<"bank_percent", 2745>> >>
    /\ C5_BankLines(runs[1], 2) # {}
    /\ LinesOf(runs[1], 3) = <<>>

PeriodRows(store, p) == SelectSeq(store, LAMBDA c : c.period = p)

KeysUnique(rows) ==
    \A i, j \in DOMAIN rows :
        i # j => <<rows[i].apartment_id, rows[i].period, rows[i].item_code>>
                 # <<rows[j].apartment_id, rows[j].period, rows[j].item_code>>

Written(t, j, k) ==
    IF k = 1 THEN DigitVal(t[j])
    ELSE IF k = 2 THEN 10 * DigitVal(t[j]) + DigitVal(t[j + 1])
    ELSE 100 * DigitVal(t[j]) + 10 * DigitVal(t[j + 1]) + DigitVal(t[j + 2])

AllDigits(t, j, k) == j + k - 1 <= Len(t) /\ \A q \in j..(j + k - 1) : t[q] \in Digits

\* "кв N" stands at position i of t: the marker, one space, k digits
KvSpaceNumberAt(t, i, k) ==
    /\ i + 1 <= Len(t) /\ t[i] = "kv" /\ t[i + 1] = "sp"
    /\ AllDigits(t, i + 2, k)

\* an apartment marker in either letter case stands at i and only characters
\* of cls separate it from a digit
MarkerAt(t, i, cls) ==
    /\ t[i] \in {"kv", "KV"}
    /\ \E j \in (i + 1)..Len(t) :
          t[j] \in Digits /\ \A q \in (i + 1)..(j - 1) : t[q] \in cls

\* the sender block names the home address and carries a marker
SenderYields ==
    /\ sender_info # None
    /\ {HOME_STREET, HOME_HOUSE, HOME_KORP} \subseteq
          {sender_info[1][i] : i \in DOMAIN sender_info[1]}
    /\ \E i \in DOMAIN sender_info[1] : MarkerAt(sender_info[1], i, {"dot", "sp"})

\* C6 as stated: whenever the description contains "кв N" with N >= 1
\* written in 1-3 digits, the extractor returns N.
C6_AnyDescriptionWithKvN ==
    pc = "detect_done" =>
        \A i \in DOMAIN description : \A k \in 1..3 :
            ( /\ KvSpaceNumberAt(description, i, k)
              /\ Written(description, i + 2, k) >= 1 )
            => detected = <<Written(description, i + 2, k)>>

\* the description ends in a trailing code: ";", spaces, digits, then
\* nothing but spaces
C6_EndsInCode ==
    \E i \in DOMAIN description : \E j \in (i + 1)..Len(description) :
        /\ description[i] = "semi"
        /\ \A q \in (i + 1)..(j - 1) : description[q] = "sp"
        /\ description[j] \in Digits
        /\ \A q \in j..Len(description) : description[q] \in Digits \union {"sp"}
        /\ \A q, r \in j..Len(description) :
              (q < r /\ description[q] = "sp") => description[r] = "sp"

\* C6 amended: when the sender tier yields no number, the description does
\* not end in a trailing ";" code, and "кв N" (N >= 0 written in 1-3 digits,
\* not followed by a further digit unless three are written) is the leftmost
\* place of the description where an apartment marker is followed, after any
\* run of ".", spaces and "-", by a digit, the extractor returns N.
C6_LeftmostKvN ==
    pc = "detect_done" =>
        \A i \in DOMAIN description : \A k \in 1..3 :
            ( /\ KvSpaceNumberAt(description, i, k)
              /\ (k = 3 \/ ~AllDigits(description, i + 2, k + 1))
              /\ \A h \in 1..(i - 1) : ~MarkerAt(description, h, {"dot", "sp", "hy"})
              /\ ~C6_EndsInCode
              /\ ~SenderYields )
            => detected = <<Written(description, i + 2, k)>>

\* "кв 12" after another word, with a sender block that is not at the home
\* address
C6_Witness ==
    /\ pc = "detect_done"
    /\ description = <<"x", "kv", "sp", "d1">>
    /\ sender_info = <<<<HOME_STREET, "sp", "kv", "sp", "d2">>>>
    /\ detected = <<1>>

\* C7: detect_apartment returns a positive integer (>= 1) or None, never 0
\* or a negative number.
C7_PositiveOrNone ==
    pc = "detect_done" => (detected = None \/ detected[1] >= 1)

\* C8: when the sender block contains the street, building and section
\* tokens and an apartment marker followed by a number, the result is the
\* number after the leftmost such marker (its first three digits at most),
\* whatever the description contains; otherwise the result is what the
\* description alone yields.
C8_SenderWins ==
    pc = "detect_done" =>
        /\ SenderYields =>
              \E i \in DOMAIN sender_info[1] : \E j \in (i + 1)..Len(sender_info[1]) :
              \E k \in 1..3 :
                 LET t == sender_info[1]
                 IN  /\ MarkerAt(t, i, {"dot", "sp"})
                     /\ \A h \in 1..(i - 1) : ~MarkerAt(t, h, {"dot", "sp"})
                     /\ \A q \in (i + 1)..(j - 1) : t[q] \in {"dot", "sp"}
                     /\ AllDigits(t, j, k)
                     /\ (k = 3 \/ ~AllDigits(t, j, k + 1))
                     /\ detected = <<Written(t, j, k)>>
        /\ ~SenderYields => detected = detect_apartment(description, None)

\* the sender block at the home address says apartment 2 or 21 while the
\* description says apartment 1
C8_Witness ==
    /\ pc = "detect_done"
    /\ SenderYields
    /\ description = <<"kv", "sp", "d1">>
    /\ detected \in {<<2>>, <<21>>}

(***************************************************************************)
(* Matching, manual resolution, persistence                                *)
(***************************************************************************)
RowsOf(list) == {list[k].row : k \in DOMAIN list}

NoRepeat(list) == Cardinality(RowsOf(list)) = Len(list)

Guess(i) == detect_apartment(statement[i].description, statement[i].sender_info)

\* the guessed number of statement row i is a number of the registry
Known(i) ==
    /\ Guess(i) # None
    /\ \E a \in DOMAIN apartments : apartments[a].number = Guess(i)[1]

ApartmentIds == {apartments[a].id : a \in DOMAIN apartments}

\* C3: attach_apartment_ids puts every payment whose guessed number is None
\* or not a registry number in unmatched and every other payment in matched;
\* no payment is in both or in neither, and the two lengths add up to the
\* number of payments.
C3_Partition ==
    pc \in {"review", "saved"} =>
        /\ \A i \in DOMAIN statement :
              IF Known(i)
              THEN i \in RowsOf(matched) /\ i \notin RowsOf(unmatched)
              ELSE i \in RowsOf(unmatched) /\ i \notin RowsOf(matched)
        /\ RowsOf(matched) \union RowsOf(unmatched) = DOMAIN statement
        /\ NoRepeat(matched) /\ NoRepeat(unmatched)
        /\ Len(matched) + Len(unmatched) = Len(statement)

\* a statement with an auto-matched payment, a payment without a guess and
\* a payment whose guess, 2, is no registry number
C3_Witness ==
    /\ pc = "review"
    /\ Len(matched) = 1
    /\ Len(unmatched) = 2
    /\ unmatched[1].guessed_apartment_number = None
    /\ unmatched[2].guessed_apartment_number = <<2>>

\* the last n rows of a table
LastRows(table, n) == SubSeq(table, Len(table) - n + 1, Len(table))

\* C4: every persisted Payment row has a non-null apartment id that is the
\* id of a registry apartment; an auto-matched record carries the id of an
\* apartment whose number is its guessed number; a save persists as
\* Payments exactly the records of final_matched, all of them resolved, and
\* the records without a resolved id as UnmatchedPayments.
C4_PaymentsReferenceApartments ==
    /\ \A k \in DOMAIN payments :
          /\ payments[k].apartment_id # None
          /\ payments[k].apartment_id[1] \in ApartmentIds
    /\ \A k \in DOMAIN matched :
          \E a \in DOMAIN apartments :
              /\ matched[k].apartment_id = <<apartments[a].id>>
              /\ matched[k].guessed_apartment_number = <<apartments[a].number>>
    /\ saves >= 1 =>
          /\ Len(payments) >= Len(final_matched)
          /\ \A k \in DOMAIN final_matched :
                LET row == LastRows(payments, Len(final_matched))[k]
                IN  /\ row.apartment_id = final_matched[k].apartment_id
                    /\ row.description = final_matched[k].description
                    /\ row.amount = final_matched[k].amount
                    /\ row.date = final_matched[k].date
          /\ \A k \in DOMAIN final_unmatched :
                /\ final_unmatched[k].apartment_id = None
                /\ final_unmatched[k].row \notin RowsOf(final_matched)
                /\ LastRows(unmatched_payments, Len(final_unmatched))[k].description
                      = final_unmatched[k].description
    /\ Len(payments) + Len(unmatched_payments) = saves * Len(statement)

\* a save stores an auto-matched and a manually resolved record as
\* payments and a third record as unmatched
C4_Witness ==
    /\ pc = "saved"
    /\ Len(payments) = 2
    /\ Len(unmatched_payments) = 1
    /\ Len(matched) = 1
    /\ \E k \in DOMAIN final_matched :
          /\ final_matched[k].row \in RowsOf(unmatched)
          /\ final_matched[k].guessed_apartment_number = None
          /\ final_matched[k].apartment_id # None

Overridden == {i \in DOMAIN unmatched : choices[i] # None}

\* C10: on a save final_matched and final_unmatched hold the records of
\* matched and unmatched, each once and unchanged; final_matched is matched
\* followed by exactly the unmatched records the operator resolved;
\* without any override final_matched = matched and final_unmatched =
\* unmatched.
C10_Repartition ==
    pc = "saved" =>
        /\ RowsOf(final_matched) \union RowsOf(final_unmatched) = DOMAIN statement
        /\ Len(final_matched) + Len(final_unmatched) = Len(statement)
        /\ \A k \in DOMAIN final_matched :
              \/ \E m \in DOMAIN matched : final_matched[k] = matched[m]
              \/ \E u \in DOMAIN unmatched : final_matched[k] = unmatched[u]
        /\ \A k \in DOMAIN final_unmatched :
              \E u \in DOMAIN unmatched : final_unmatched[k] = unmatched[u]
        /\ SubSeq(final_matched, 1, Len(matched)) = matched
        /\ RowsOf(final_matched) =
              RowsOf(matched) \union {unmatched[i].row : i \in Overridden}
        /\ RowsOf(final_unmatched) =
              {unmatched[i].row : i \in DOMAIN unmatched \ Overridden}
        /\ Overridden = {} =>
              final_matched = matched /\ final_unmatched = unmatched

\* a save after the operator resolved one of two unmatched records beside an
\* auto-matched one
C10_Witness ==
    /\ pc = "saved"
    /\ Len(matched) = 1
    /\ Len(unmatched) = 2
    /\ Cardinality(Overridden) = 1
    /\ Len(final_matched) = 2
    /\ Len(final_unmatched) = 1

(***************************************************************************)
(* Tariff gaps                                                             *)
(***************************************************************************)
\* the codes whose line needs a tariff row, with the apartment attribute each
\* is multiplied by
GapCodes == {"target_fee", "radio", "antenna", "bank_percent"}

C11_AttrOf(apt, code) ==
    IF code = "target_fee" THEN apt.area
    ELSE IF code = "radio" THEN apt.radio
    ELSE apt.antenna

\* the position of a code in the order the lines are emitted in
C11_Rank(code) ==
    IF code = "target_fee" THEN 1
    ELSE IF code = "radio" THEN 2
    ELSE IF code = "antenna" THEN 3
    ELSE IF code = "intercom" THEN 4
    ELSE 5

C11_LinesWith(lines, code) == {i \in DOMAIN lines : lines[i][1] = code}

OtherRows(store, p) == SelectSeq(store, LAMBDA c : c.period # p)

\* the runs that saved period p
SavingRuns(p) == {k \in DOMAIN runs : runs[k].save_to_db /\ runs[k].period = p}

\* the store before the first run
FirstStore == IF runs = <<>> THEN charges ELSE runs[1].before

\* C12: a run of generate_charges for period P leaves every stored row of
\* another period as it was, in the stored order, and a run with
\* save_to_db = False leaves the whole store as it was; so after any
\* sequence of runs the stored rows of a period are exactly the rows of the
\* latest saving run for that period, and those the store started with when
\* no run saved the period.
C12_OtherPeriodsKept ==
    /\ \A k \in DOMAIN runs :
          /\ OtherRows(runs[k].after, runs[k].period)
                = OtherRows(runs[k].before, runs[k].period)
          /\ ~runs[k].save_to_db => runs[k].after = runs[k].before
          /\ k + 1 \in DOMAIN runs => runs[k + 1].before = runs[k].after
    /\ runs # <<>> => charges = runs[Len(runs)].after
    /\ \A p \in Periods :
          PeriodRows(charges, p)
              = IF SavingRuns(p) = {} THEN PeriodRows(FirstStore, p)
                ELSE ChargesOf(runs[Max(SavingRuns(p))].returned)

\* over a store that held rows of January and February, a run saves new rows
\* for January and the February rows stay; then a run saves rows for a third
\* month and both January's new rows and February's old ones stay
C12_Witness ==
    /\ Len(runs) = 2
    /\ runs[1].save_to_db /\ runs[2].save_to_db
    /\ runs[1].period = month_start(2025, 1)
    /\ runs[2].period = month_start(2025, 3)
    /\ runs[1].returned # <<>> /\ runs[2].returned # <<>>
    /\ PeriodRows(FirstStore, month_start(2025, 1)) # <<>>
    /\ PeriodRows(FirstStore, month_start(2025, 1))
          # PeriodRows(charges, month_start(2025, 1))
    /\ PeriodRows(charges, month_start(2025, 2)) # <<>>
    /\ PeriodRows(charges, month_start(2025, 2))
          = PeriodRows(FirstStore, month_start(2025, 2))

====
